---- MODULE Spec2Model ----
(***************************************************************************)
(* Model of the generation-and-validation pipeline of at-data-sandbox:     *)
(*   src/src/data/validator.py  (DataValidator)                            *)
(*   src/src/data/generator.py  (ATDataGenerator)                          *)
(* Money is kept in integer cents, utilization percentages in hundredths   *)
(* of a percent, dates in whole days.  A value with more precision is a    *)
(* fraction num/den until round(.., 2) turns it into an integer.           *)
(* The two process-global random sources (module `random` and module       *)
(* `numpy.random`) are linear congruential generators over 0..RngMod-1.    *)
(***************************************************************************)
EXTENDS Integers, Sequences, FiniteSets, TLC

VARIABLES pyRng, npRng, call, memo, vparams, verrors, stage, summary

vars == <<pyRng, npRng, call, memo, vparams, verrors, stage, summary>>

(***************************************************************************)
(* Bounds of the model.  The configured ranges live in config.yaml, which  *)
(* the code reads through `settings`; the model takes small ranges.        *)
(***************************************************************************)
RngMod == 8
IdLen == 2
HexBase == 2
ParticipantsMin == 1
ParticipantsMax == 2
BudgetMin == 1
BudgetMax == 3
DurationDays == 1
ProcDaysMin == 1
ProcDaysMax == 2
NumStates == 2
NumMMM == 2
NumDisabilities == 2
NumModes == 2
NumVariations == 2
PoissonMax == 2
MaxDay == 2

(* Program constants. *)
AgeMin == 5
AgeMax == 70
AgeBandWidth == 5
NumSupportItems == 40
UtilTargetMax == 100

\* mutant of Max: the floor forgotten, max(1, x) taken as x
Max_floor_dropped(a, b) == b

Max(a, b) == IF a >= b THEN a ELSE b
Min(a, b) == IF a <= b THEN a ELSE b

RECURSIVE Pow(_, _)
Pow(b, e) == IF e <= 0 THEN 1 ELSE b * Pow(b, e - 1)

(***************************************************************************)
(* round(x, 2) of x = num/den (den > 0): the nearest integer, ties to the  *)
(* even one, as Python's round does.                                       *)
(***************************************************************************)
Round(num, den) ==
    LET q == num \div den
        r == num % den
    IN  IF 2 * r < den THEN q
        ELSE IF 2 * r > den THEN q + 1
        ELSE IF q % 2 = 0 THEN q ELSE q + 1

(***************************************************************************)
(* The random sources.  seed(s) puts a source in a state that depends on   *)
(* s alone; every draw reads the state and steps it.                       *)
(***************************************************************************)
PySeed(seed) == seed % RngMod
NpSeed(seed) == (seed + 1) % RngMod
PyStep(s) == (5 * s + 3) % RngMod
NpStep(s) == (5 * s + 7) % RngMod

\* floor(random() * n) with random() = s / RngMod
randbelow(s, n) == (s * n) \div RngMod
\* mutant of randint: the range taken one too wide
randint_past_end(s, a, b) == a + randbelow(s, b - a + 2)

\* random.randint(a, b), a <= b
randint(s, a, b) == a + randbelow(s, b - a + 1)
\* mutant of choice: the index taken one too far
choice_past_end(s, n) == 1 + randbelow(s, n + 1)

\* random.choice over a vocabulary of n entries, as the index 1..n
choice(s, n) == 1 + randbelow(s, n)

\* np.random.seed accepts 0 .. 2^32 - 1 only
NpSeedOk(seed) == seed >= 0

(***************************************************************************)
(* DataValidator.validate_generation_params: seven independent checks,     *)
(* each appending its message to the list that is returned.                *)
(***************************************************************************)
MsgParticipants == "Participants must be between min and max"
MsgClaimsOrder == "Min claims cannot exceed max claims"
MsgClaimsMin == "Min claims must be at least 1"
MsgUtilTarget == "Utilization target must be between 0 and 100"
MsgUtilSpread == "Utilization spread must be at least 1"
MsgWindow == "Window start must be before window end"
MsgPaceLive == "PACE live date must be within the window"

AppendIf(errors, cond, msg) == IF cond THEN Append(errors, msg) ELSE errors

\* mutants of validate_generation_params: the order check made strict; the
\* checks chained so that the first failure hides the later ones
validate_generation_params_strict(params) ==
    LET e1 == AppendIf(<< >>, ~(ParticipantsMin <= params.n_participants
                                /\ params.n_participants <= ParticipantsMax),
                       MsgParticipants)
        e2 == AppendIf(e1, params.claims_min >= params.claims_max, MsgClaimsOrder)
        e3 == AppendIf(e2, params.claims_min < 1, MsgClaimsMin)
        e4 == AppendIf(e3, ~(0 <= params.util_target
                             /\ params.util_target <= UtilTargetMax),
                       MsgUtilTarget)
        e5 == AppendIf(e4, params.util_spread < 1, MsgUtilSpread)
        e6 == AppendIf(e5, params.window_start >= params.window_end, MsgWindow)
    IN  AppendIf(e6, params.pace_live < params.window_start
                     \/ params.pace_live > params.window_end, MsgPaceLive)

validate_generation_params_first(params) ==
    IF ~(ParticipantsMin <= params.n_participants
         /\ params.n_participants <= ParticipantsMax) THEN <<MsgParticipants>>
    ELSE IF params.claims_min > params.claims_max THEN <<MsgClaimsOrder>>
    ELSE IF params.claims_min < 1 THEN <<MsgClaimsMin>>
    ELSE IF ~(0 <= params.util_target /\ params.util_target <= UtilTargetMax)
         THEN <<MsgUtilTarget>>
    ELSE IF params.util_spread < 1 THEN <<MsgUtilSpread>>
    ELSE IF params.window_start >= params.window_end THEN <<MsgWindow>>
    ELSE IF params.pace_live < params.window_start
            \/ params.pace_live > params.window_end THEN <<MsgPaceLive>>
    ELSE << >>

validate_generation_params(params) ==
    LET e0 == << >>
        e1 == AppendIf(e0, ~(ParticipantsMin <= params.n_participants
                             /\ params.n_participants <= ParticipantsMax),
                       MsgParticipants)
        e2 == AppendIf(e1, params.claims_min > params.claims_max, MsgClaimsOrder)
        e3 == AppendIf(e2, params.claims_min < 1, MsgClaimsMin)
        e4 == AppendIf(e3, ~(0 <= params.util_target
                             /\ params.util_target <= UtilTargetMax),
                       MsgUtilTarget)
        e5 == AppendIf(e4, params.util_spread < 1, MsgUtilSpread)
        e6 == AppendIf(e5, params.window_start >= params.window_end, MsgWindow)
        e7 == AppendIf(e6, params.pace_live < params.window_start
                           \/ params.pace_live > params.window_end,
                       MsgPaceLive)
    IN  e7

(***************************************************************************)
(* pd.DataFrame(records): a list of records becomes a table whose columns  *)
(* are the keys of the records; an empty list gives a table without        *)
(* columns.                                                                *)
(***************************************************************************)
DataFrame(records) ==
    [cols |-> IF records = << >> THEN {} ELSE DOMAIN records[1],
     rows |-> records]

NoTable == [cols |-> {}, rows |-> << >>]

(***************************************************************************)
(* ATDataGenerator helpers.                                                *)
(***************************************************************************)
\* _rand_hex(n): n digits drawn one after the other; the identifier is the
\* number the digits spell.
RECURSIVE rand_hex(_, _)
rand_hex(s, n) ==
    IF n <= 0 THEN [val |-> 0, py |-> s]
    ELSE LET d == randbelow(s, HexBase)
             rest == rand_hex(PyStep(s), n - 1)
         IN  [val |-> d * Pow(HexBase, n - 1) + rest.val, py |-> rest.py]

\* _rand_date(start, end): start + randint(0, (end - start).days); randint
\* raises ValueError on an empty range.
rand_date(s, start, end) ==
    IF end - start < 0 THEN [exc |-> "ValueError", val |-> start, py |-> s]
    ELSE [exc |-> "none", val |-> start + randint(s, 0, end - start), py |-> PyStep(s)]

\* _age_band(age): the 5-year bin <<band_start, band_start + 4>>
age_band(age) ==
    LET band_start == (age \div AgeBandWidth) * AgeBandWidth
    IN  <<band_start, band_start + 4>>

(***************************************************************************)
(* generate_participants(n_participants)                                   *)
(***************************************************************************)
RECURSIVE participants_loop(_, _, _)
participants_loop(s, k, acc) ==
    IF k <= 0 THEN [rows |-> acc, py |-> s]
    ELSE LET age == randint(s, AgeMin, AgeMax)
             hex == rand_hex(PyStep(s), IdLen)
             s2 == hex.py
             s3 == PyStep(s2)
             s4 == PyStep(s3)
             row == [Hashed_Participant_ID |-> hex.val,
                     State |-> choice(s2, NumStates),
                     MMM_Code |-> choice(s3, NumMMM),
                     Age_Band |-> age_band(age),
                     Primary_Disability |-> choice(s4, NumDisabilities)]
         IN  participants_loop(PyStep(s4), k - 1, Append(acc, row))

generate_participants(py, n_participants) ==
    LET r == participants_loop(py, n_participants, << >>)
    IN  [exc |-> "none", df |-> DataFrame(r.rows), py |-> r.py]

(***************************************************************************)
(* generate_plans(participants_df, params)                                 *)
(***************************************************************************)
\* int(np.random.poisson(lam)): lam < 0 raises ValueError, lam = 0 gives 0,
\* lam > 0 gives any count (here 0 .. PoissonMax).
poisson(s, lam) == IF lam = 0 THEN 0 ELSE randbelow(s, PoissonMax + 1)

\* mutant of budget_draw: the lower bound forgotten, uniform(0, max)
budget_draw_no_min(s) == Round(BudgetMax * s, RngMod)

\* random.uniform(BudgetMin, BudgetMax), rounded to cents
budget_draw(s) ==
    Round(BudgetMin * RngMod + (BudgetMax - BudgetMin) * s, RngMod)

\* mutant of plan_end_date: the end not capped at the window end
plan_end_date_uncapped(start_date, params) == start_date + DurationDays

plan_end_date(start_date, params) ==
    Min(start_date + DurationDays, params.window_end)

\* the inner loop: n_plans plans of participant pid
RECURSIVE plans_of(_, _, _, _, _)
plans_of(s, pid, k, params, acc) ==
    IF k <= 0 THEN [exc |-> "none", rows |-> acc, py |-> s]
    ELSE LET sd == rand_date(s, params.window_start, params.window_end)
         IN  IF sd.exc # "none" THEN [exc |-> sd.exc, rows |-> acc, py |-> sd.py]
             ELSE LET hex == rand_hex(sd.py, IdLen)
                      s2 == hex.py
                      s3 == PyStep(s2)
                      s4 == PyStep(s3)
                      row == [Plan_ID |-> hex.val,
                              Hashed_Participant_ID |-> pid,
                              Plan_Start_Date |-> sd.val,
                              Plan_End_Date |-> plan_end_date(sd.val, params),
                              Capital_AT_Budget_Total_AUD |-> budget_draw(s2),
                              Plan_Management_Mode |-> choice(s3, NumModes),
                              Variation_Type |-> choice(s4, NumVariations)]
                  IN  plans_of(PyStep(s4), pid, k - 1, params, Append(acc, row))

\* the outer loop over participants_df['Hashed_Participant_ID']
RECURSIVE plans_loop(_, _, _, _, _, _)
plans_loop(py, np, prows, i, params, acc) ==
    IF i > Len(prows) THEN [exc |-> "none", rows |-> acc, py |-> py, np |-> np]
    ELSE IF params.avg_plans < 0
         THEN [exc |-> "ValueError", rows |-> acc, py |-> py, np |-> np]
    ELSE LET n_plans == Max(1, poisson(np, params.avg_plans))
             r == plans_of(py, prows[i].Hashed_Participant_ID, n_plans, params, acc)
         IN  IF r.exc # "none"
             THEN [exc |-> r.exc, rows |-> r.rows, py |-> r.py, np |-> NpStep(np)]
             ELSE plans_loop(r.py, NpStep(np), prows, i + 1, params, r.rows)

generate_plans(py, np, participants_df, params) ==
    IF "Hashed_Participant_ID" \notin participants_df.cols
    THEN [exc |-> "KeyError", df |-> NoTable, py |-> py, np |-> np]
    ELSE LET r == plans_loop(py, np, participants_df.rows, 1, params, << >>)
         IN  [exc |-> r.exc,
              df |-> IF r.exc = "none" THEN DataFrame(r.rows) ELSE NoTable,
              py |-> r.py, np |-> r.np]

(***************************************************************************)
(* generate_utilization_and_claims(plans_df, params)                       *)
(***************************************************************************)
\* np.random.beta(2, util_spread): a value strictly between 0 and 1, as the
\* fraction num/den
beta_num(s) == 2 * s + 1
beta_den == 2 * RngMod

\* util_rate = min(beta * util_target / 100, 1.0), as a fraction
util_rate(s, params) ==
    LET num == beta_num(s) * params.util_target
        den == beta_den * 100
    IN  IF num > den THEN [num |-> 1, den |-> 1] ELSE [num |-> num, den |-> den]

\* mutant of total_spent_of: the rate taken in percent
total_spent_of_percent(budget, rate) == Round(budget * rate.num * 100, rate.den)

\* total_spent = round(budget * util_rate, 2)
total_spent_of(budget, rate) == Round(budget * rate.num, rate.den)

\* mutant of rate_percent_of: the rate scaled by 1000, not by 100
rate_percent_of_per_mille(rate) == Round(rate.num * 1000 * 100, rate.den)

\* round(util_rate * 100, 2), in hundredths of a percent
rate_percent_of(rate) == Round(rate.num * 100 * 100, rate.den)

\* mutant of claim_amount: the total not divided by the number of claims
claim_amount_undivided(s, total_spent, n_claims) ==
    Round(total_spent * (8 * RngMod + 4 * s), 10 * RngMod)

\* amount = round(total_spent / n_claims * random.uniform(0.8, 1.2), 2)
claim_amount(s, total_spent, n_claims) ==
    Round(total_spent * (8 * RngMod + 4 * s), n_claims * 10 * RngMod)

\* mutant of claims_of: the claim keyed by the participant of the plan
RECURSIVE claims_of_wrong_key(_, _, _, _, _, _)
claims_of_wrong_key(s, plan, total_spent, n_claims, k, acc) ==
    IF k <= 0 THEN [rows |-> acc, py |-> s]
    ELSE LET s2 == PyStep(s)
             row == [Plan_ID |-> plan.Hashed_Participant_ID,
                     Support_Item_Type |-> choice(s, NumSupportItems),
                     Paid_UnitPrice_AUD |-> claim_amount(s2, total_spent, n_claims)]
         IN  claims_of_wrong_key(PyStep(s2), plan, total_spent, n_claims, k - 1,
                                 Append(acc, row))

\* the claims of one plan: for _ in range(n_claims)
RECURSIVE claims_of(_, _, _, _, _, _)
claims_of(s, plan, total_spent, n_claims, k, acc) ==
    IF k <= 0 THEN [rows |-> acc, py |-> s]
    ELSE LET s2 == PyStep(s)
             row == [Plan_ID |-> plan.Plan_ID,
                     Support_Item_Type |-> choice(s, NumSupportItems),
                     Paid_UnitPrice_AUD |-> claim_amount(s2, total_spent, n_claims)]
         IN  claims_of(PyStep(s2), plan, total_spent, n_claims, k - 1,
                       Append(acc, row))

\* mutant of has_spending: claims generated whatever was spent
has_spending_always(total_spent) == TRUE

\* if total_spent > 0: the guard of the claims of one plan
has_spending(total_spent) == total_spent > 0

\* the loop over plans_df.iterrows()
\* (counts records how many claims each plan got, in the order of the plans)
RECURSIVE util_loop(_, _, _, _, _, _, _, _)
util_loop(py, np, plans, i, params, uacc, cacc, counts) ==
    IF i > Len(plans)
    THEN [exc |-> "none", util |-> uacc, claims |-> cacc, counts |-> counts,
          py |-> py, np |-> np]
    ELSE IF params.util_spread <= 0
         THEN [exc |-> "ValueError", util |-> uacc, claims |-> cacc,
               counts |-> counts, py |-> py, np |-> np]
    ELSE LET plan == plans[i]
             budget == plan.Capital_AT_Budget_Total_AUD
             rate == util_rate(np, params)
             total_spent == total_spent_of(budget, rate)
             urow == [Plan_ID |-> plan.Plan_ID,
                      Utilization_Rate_Percent |-> rate_percent_of(rate),
                      Total_Spent_AUD |-> total_spent,
                      Avg_Processing_Days |-> randint(py, ProcDaysMin, ProcDaysMax)]
             s1 == PyStep(py)
         IN  IF params.claims_min > params.claims_max
             THEN [exc |-> "ValueError", util |-> Append(uacc, urow),
                   claims |-> cacc, counts |-> counts, py |-> s1, np |-> NpStep(np)]
             ELSE LET n_claims == randint(s1, params.claims_min, params.claims_max)
                      s2 == PyStep(s1)
                      c == IF has_spending(total_spent)
                           THEN claims_of(s2, plan, total_spent, n_claims,
                                          n_claims, cacc)
                           ELSE [rows |-> cacc, py |-> s2]
                  IN  util_loop(c.py, NpStep(np), plans, i + 1, params,
                                Append(uacc, urow), c.rows,
                                Append(counts, Len(c.rows) - Len(cacc)))

generate_utilization_and_claims(py, np, plans_df, params) ==
    LET r == util_loop(py, np, plans_df.rows, 1, params, << >>, << >>, << >>)
    IN  [exc |-> r.exc,
         claim_counts |-> r.counts,
         util_df |-> IF r.exc = "none" THEN DataFrame(r.util) ELSE NoTable,
         claims_df |-> IF r.exc = "none" THEN DataFrame(r.claims) ELSE NoTable,
         py |-> r.py, np |-> r.np]

(***************************************************************************)
(* DataFrame.merge(right, on=key): the inner join.  Every left row, in     *)
(* order, is paired with every right row that has the same key, in order;  *)
(* the key column is kept once.  A missing key column raises KeyError.     *)
(***************************************************************************)
JoinRow(l, r) ==
    [c \in (DOMAIN l) \cup (DOMAIN r) |-> IF c \in DOMAIN l THEN l[c] ELSE r[c]]

\* the rows that pair l with the right rows j, j + 1, ... of the same key
RECURSIVE matches(_, _, _, _)
matches(l, rrows, key, j) ==
    IF j > Len(rrows) THEN << >>
    ELSE (IF rrows[j][key] = l[key] THEN <<JoinRow(l, rrows[j])>> ELSE << >>)
         \o matches(l, rrows, key, j + 1)

\* the rows of the join for the left rows i, i + 1, ...
RECURSIVE merge_rows(_, _, _, _)
merge_rows(lrows, rrows, key, i) ==
    IF i > Len(lrows) THEN << >>
    ELSE matches(lrows[i], rrows, key, 1) \o merge_rows(lrows, rrows, key, i + 1)

merge(left, right, key) ==
    IF key \notin left.cols \/ key \notin right.cols
    THEN [exc |-> "KeyError", df |-> NoTable]
    ELSE [exc |-> "none",
          df |-> [cols |-> left.cols \cup right.cols,
                  rows |-> merge_rows(left.rows, right.rows, key, 1)]]

\* plans_df.merge(participants_df, on=...).merge(util_df, on='Plan_ID')
merge_main(plans_df, participants_df, util_df) ==
    LET m1 == merge(plans_df, participants_df, "Hashed_Participant_ID")
    IN  IF m1.exc # "none" THEN m1 ELSE merge(m1.df, util_df, "Plan_ID")

(***************************************************************************)
(* DataValidator.validate_generated_data: the quality scan.                *)
(***************************************************************************)
required_main_cols ==
    {"Plan_ID", "Hashed_Participant_ID", "State", "MMM_Code",
     "Primary_Disability", "Utilization_Rate_Percent", "Total_Spent_AUD"}

WarnMissingCols == "Missing main columns"
WarnNullPlanId == "Null values found in Plan_ID"
WarnNullParticipantId == "Null values found in Hashed_Participant_ID"
WarnInvalidUtil == "Invalid utilization rates"
WarnNoClaims == "No claims data generated"
WarnNegativeAmounts == "Negative claim amounts"

\* Series.isnull(): identifiers are numbers >= 0 here, a missing one is < 0
isnull(v) == v < 0

validate_generated_data(main_df, claims_df) ==
    LET IsNullPlan(r) == isnull(r.Plan_ID)
        IsNullPid(r) == isnull(r.Hashed_Participant_ID)
        BadUtil(r) == r.Utilization_Rate_Percent < 0
                      \/ r.Utilization_Rate_Percent > 100 * 100
        Negative(r) == r.Paid_UnitPrice_AUD < 0
        w0 == << >>
        w1 == AppendIf(w0, required_main_cols \ main_df.cols # {}, WarnMissingCols)
        w2 == AppendIf(w1, "Plan_ID" \in main_df.cols
                           /\ (\E i \in 1 .. Len(main_df.rows) : IsNullPlan(main_df.rows[i])), WarnNullPlanId)
        w3 == AppendIf(w2, "Hashed_Participant_ID" \in main_df.cols
                           /\ (\E i \in 1 .. Len(main_df.rows) : IsNullPid(main_df.rows[i])),
                       WarnNullParticipantId)
        w4 == AppendIf(w3, "Utilization_Rate_Percent" \in main_df.cols
                           /\ (\E i \in 1 .. Len(main_df.rows) : BadUtil(main_df.rows[i])), WarnInvalidUtil)
        w5 == IF claims_df.rows = << >> THEN Append(w4, WarnNoClaims)
              ELSE AppendIf(w4, "Paid_UnitPrice_AUD" \in claims_df.cols
                                /\ (\E i \in 1 .. Len(claims_df.rows) : Negative(claims_df.rows[i])),
                            WarnNegativeAmounts)
    IN  w5

(***************************************************************************)
(* DataValidator.get_data_quality_summary.  A float result is a record     *)
(* [nan, val]: nan tells a NaN (0 / 0, the mean of no values) from a       *)
(* number.  completeness_pct is in tenths of a percent, avg_utilization in *)
(* hundredths of a percent, total_amount in cents.                         *)
(***************************************************************************)
Number(v) == [nan |-> FALSE, val |-> v]
NaN == [nan |-> TRUE, val |-> 0]

\* df[col]
Column(df, col) == [i \in 1 .. Len(df.rows) |-> df.rows[i][col]]

\* mutant of nunique: the values counted, not the distinct values
nunique_counts_rows(values) == Len(values)

\* Series.nunique(): the number of distinct non-null values
nunique(values) ==
    Cardinality({values[i] : i \in {j \in DOMAIN values : ~isnull(values[j])}})

\* Series.sum()
RECURSIVE series_sum(_)
series_sum(values) ==
    IF values = << >> THEN 0 ELSE Head(values) + series_sum(Tail(values))

\* df.notna().sum().sum(): the number of non-null cells (the identifiers are
\* the only cells that have a null value here)
RECURSIVE notna_count(_, _)
notna_count(df, i) ==
    IF i > Len(df.rows) THEN 0
    ELSE Cardinality({c \in df.cols :
                         ~(c \in {"Plan_ID", "Hashed_Participant_ID"}
                           /\ isnull(df.rows[i][c]))})
         + notna_count(df, i + 1)

\* df.size
size(df) == Len(df.rows) * Cardinality(df.cols)

\* df.empty
empty(df) == df.rows = << >> \/ df.cols = {}

get_data_quality_summary(main_df, claims_df) ==
    [main_data |->
        [total_records |-> Len(main_df.rows),
         total_participants |->
             IF "Hashed_Participant_ID" \in main_df.cols
             THEN nunique(Column(main_df, "Hashed_Participant_ID")) ELSE 0,
         total_plans |->
             IF "Plan_ID" \in main_df.cols
             THEN nunique(Column(main_df, "Plan_ID")) ELSE 0,
         completeness_pct |->
             IF size(main_df) = 0 THEN NaN
             ELSE Number(Round(notna_count(main_df, 1) * 100 * 10, size(main_df))),
         avg_utilization |->
             IF "Utilization_Rate_Percent" \in main_df.cols
             THEN IF main_df.rows = << >> THEN NaN
                  ELSE Number(Round(series_sum(Column(main_df,
                                                      "Utilization_Rate_Percent")),
                                    Len(main_df.rows)))
             ELSE Number(0)],
     claims_data |->
        [total_claims |-> Len(claims_df.rows),
         total_amount |->
             IF "Paid_UnitPrice_AUD" \in claims_df.cols /\ ~empty(claims_df)
             THEN series_sum(Column(claims_df, "Paid_UnitPrice_AUD")) ELSE 0,
         unique_items |->
             IF "Support_Item_Type" \in claims_df.cols /\ ~empty(claims_df)
             THEN nunique(Column(claims_df, "Support_Item_Type")) ELSE 0]]

(***************************************************************************)
(* The parameter values the model draws.                                   *)
(***************************************************************************)
GenerationParams(n, avg, cmin, cmax, ut, us, seed, pl, ws, we) ==
    [n_participants |-> n, avg_plans |-> avg, claims_min |-> cmin,
     claims_max |-> cmax, util_target |-> ut, util_spread |-> us, seed |-> seed,
     pace_live |-> pl, window_start |-> ws, window_end |-> we]

\* what generate_complete_dataset is invoked with
Seeds == {-1, 0, 1, 2}
ParamSpace ==
    {GenerationParams(n, avg, cmin, 2, ut, 1, seed, 0, 0, we) :
        n \in ParticipantsMin .. (ParticipantsMax + 1),
        avg \in {-1, 1},
        cmin \in {1, 3},
        ut \in {0, UtilTargetMax},
        seed \in Seeds,
        we \in {MaxDay - 1, MaxDay}}

\* what two interleaved invocations are invoked with
ConcurrentParamSpace ==
    {p \in ParamSpace : /\ p.window_end = MaxDay
                        /\ p.util_target = UtilTargetMax
                        /\ p.avg_plans = 1
                        /\ p.seed >= 0}

\* what the generation methods are called with directly (nothing validates it)
StageCounts == 0 .. (ParticipantsMax + 1)
StageParamSpace ==
    {GenerationParams(0, avg, cl[1], cl[2], ut, 1, 0, 0, 0, we) :
        avg \in {0, 1},
        cl \in {<<0, 0>>, <<1, 2>>, <<2, 2>>, <<2, 1>>},
        ut \in {0, UtilTargetMax},
        we \in {MaxDay - 1, MaxDay}}

\* what the validator alone is applied to
Days == 0 .. MaxDay
ValidatorParamSpace ==
    {GenerationParams(n, 1, cmin, cmax, ut, us, 0, pl, ws, we) :
        n \in (ParticipantsMin - 1) .. (ParticipantsMax + 1),
        cmin \in 0 .. 2, cmax \in {-1, 1, 2},
        ut \in {-1, 0, UtilTargetMax, UtilTargetMax + 1},
        us \in 0 .. 1,
        pl \in Days, ws \in Days, we \in Days}

(***************************************************************************)
(* State.  call[c] is one invocation of generate_complete_dataset: its     *)
(* position, its locals and what it returned or raised.  memo is a         *)
(* returned result an observer kept to compare later results with.         *)
(***************************************************************************)
Calls == {1, 2}

IdleCall ==
    [pc |-> "idle", params |-> << >>, errors |-> << >>,
     participants_df |-> NoTable, plans_df |-> NoTable, util_df |-> NoTable,
     claims_df |-> NoTable, main_df |-> NoTable, warnings |-> << >>,
     outcome |-> "none", returned |-> << >>, stages |-> << >>,
     seeded |-> FALSE]

NoMemo == [set |-> FALSE, params |-> << >>, returned |-> << >>]

\* stage is a direct use of the three generation methods, one after the
\* other, as the tests make it: what was passed and what came back
IdleStage ==
    [pc |-> "start", n |-> -1, params |-> << >>, np_in |-> 0,
     participants_df |-> NoTable, plans_df |-> NoTable, util_df |-> NoTable,
     claims_df |-> NoTable, claim_counts |-> << >>, exc |-> "none"]

NoSummary == [set |-> FALSE]

InitCommon ==
    /\ pyRng = 0
    /\ npRng = 0
    /\ call = [c \in Calls |-> IdleCall]
    /\ memo = NoMemo
    /\ stage = IdleStage
    /\ summary = NoSummary

Init ==
    /\ InitCommon
    /\ vparams = << >>
    /\ verrors = << >>

\* mutant of Raise: the tables built so far handed back with the error
Raise_KeepTables(cl, kind) ==
    [cl EXCEPT !.pc = "done", !.outcome = kind,
               !.returned = <<cl.participants_df, cl.plans_df>>]

\* a call that ends by raising: nothing is returned
Raise(cl, kind) ==
    [cl EXCEPT !.pc = "done", !.outcome = kind, !.returned = << >>]

Ran(cl, name) == [cl EXCEPT !.stages = Append(@, name)]

(***************************************************************************)
(* generate_complete_dataset, one action per step of its body.             *)
(***************************************************************************)
\* mutant of Validate: the errors are collected and the call goes on
Validate_NoRaise(c, p) ==
    /\ call[c].pc = "idle"
    /\ call' = [call EXCEPT ![c] =
           [IdleCall EXCEPT !.params = p,
                            !.errors = validate_generation_params(p),
                            !.pc = "seed"]]
    /\ UNCHANGED <<pyRng, npRng, memo, vparams, verrors, stage, summary>>

\* mutant of Validate: a valid call goes to the first stage without seeding
Validate_SkipSeed(c, p) ==
    /\ call[c].pc = "idle"
    /\ LET errs == validate_generation_params(p)
           cl == [IdleCall EXCEPT !.params = p, !.errors = errs]
       IN  call' = [call EXCEPT ![c] =
                        IF errs # << >>
                        THEN [cl EXCEPT !.pc = "done", !.outcome = "ValueError"]
                        ELSE [cl EXCEPT !.pc = "participants"]]
    /\ UNCHANGED <<pyRng, npRng, memo, vparams, verrors, stage, summary>>

\* the call is entered with params p:
\* validator.validate_generation_params(params); raise ValueError on errors
Validate(c, p) ==
    /\ call[c].pc = "idle"
    /\ LET errs == validate_generation_params(p)
           cl == [IdleCall EXCEPT !.params = p, !.errors = errs]
       IN  call' = [call EXCEPT ![c] =
                        IF errs # << >> THEN Raise(cl, "ValueError")
                        ELSE [cl EXCEPT !.pc = "seed"]]
    /\ UNCHANGED <<pyRng, npRng, memo, vparams, verrors, stage, summary>>

\* mutant of SeedSources: only module random is seeded
SeedSources_PyOnly(c) ==
    /\ call[c].pc = "seed"
    /\ pyRng' = PySeed(call[c].params.seed)
    /\ npRng' = npRng
    /\ call' = [call EXCEPT ![c] = [@ EXCEPT !.seeded = TRUE, !.pc = "participants"]]
    /\ UNCHANGED <<memo, vparams, verrors, stage, summary>>

\* random.seed(params.seed); np.random.seed(params.seed)
SeedSources(c) ==
    /\ call[c].pc = "seed"
    /\ pyRng' = PySeed(call[c].params.seed)
    /\ npRng' = IF NpSeedOk(call[c].params.seed)
                THEN NpSeed(call[c].params.seed) ELSE npRng
    /\ LET cl == [call[c] EXCEPT !.seeded = TRUE]
       IN  call' = [call EXCEPT ![c] =
                        IF NpSeedOk(call[c].params.seed)
                        THEN [cl EXCEPT !.pc = "participants"]
                        ELSE Raise(cl, "ValueError")]
    /\ UNCHANGED <<memo, vparams, verrors, stage, summary>>

Participants(c) ==
    /\ call[c].pc = "participants"
    /\ LET r == generate_participants(pyRng, call[c].params.n_participants)
       IN  /\ pyRng' = r.py
           /\ call' = [call EXCEPT ![c] =
                  [Ran(@, "participants") EXCEPT !.participants_df = r.df,
                                                 !.pc = "plans"]]
    /\ UNCHANGED <<npRng, memo, vparams, verrors, stage, summary>>

Plans(c) ==
    /\ call[c].pc = "plans"
    /\ LET r == generate_plans(pyRng, npRng, call[c].participants_df, call[c].params)
       IN  /\ pyRng' = r.py
           /\ npRng' = r.np
           /\ call' = [call EXCEPT ![c] =
                  IF r.exc # "none" THEN Raise(Ran(@, "plans"), "RuntimeError")
                  ELSE [Ran(@, "plans") EXCEPT !.plans_df = r.df, !.pc = "util"]]
    /\ UNCHANGED <<memo, vparams, verrors, stage, summary>>

UtilizationAndClaims(c) ==
    /\ call[c].pc = "util"
    /\ LET r == generate_utilization_and_claims(pyRng, npRng, call[c].plans_df,
                                                call[c].params)
       IN  /\ pyRng' = r.py
           /\ npRng' = r.np
           /\ call' = [call EXCEPT ![c] =
                  IF r.exc # "none" THEN Raise(Ran(@, "util"), "RuntimeError")
                  ELSE [Ran(@, "util") EXCEPT !.util_df = r.util_df,
                                              !.claims_df = r.claims_df,
                                              !.pc = "join"]]
    /\ UNCHANGED <<memo, vparams, verrors, stage, summary>>

Join(c) ==
    /\ call[c].pc = "join"
    /\ LET r == merge_main(call[c].plans_df, call[c].participants_df, call[c].util_df)
       IN  call' = [call EXCEPT ![c] =
                  IF r.exc # "none" THEN Raise(Ran(@, "join"), "RuntimeError")
                  ELSE [Ran(@, "join") EXCEPT !.main_df = r.df, !.pc = "scan"]]
    /\ UNCHANGED <<pyRng, npRng, memo, vparams, verrors, stage, summary>>

\* mutant of Scan: a warning treated as a failure
Scan_Raise(c) ==
    /\ call[c].pc = "scan"
    /\ LET w == validate_generated_data(call[c].main_df, call[c].claims_df)
           cl == [Ran(call[c], "scan") EXCEPT !.warnings = w]
       IN  call' = [call EXCEPT ![c] =
                      IF w # << >> THEN [cl EXCEPT !.pc = "done",
                                                   !.outcome = "RuntimeError"]
                      ELSE [cl EXCEPT !.pc = "return"]]
    /\ UNCHANGED <<pyRng, npRng, memo, vparams, verrors, stage, summary>>

Scan(c) ==
    /\ call[c].pc = "scan"
    /\ call' = [call EXCEPT ![c] =
           [Ran(@, "scan") EXCEPT
               !.warnings = validate_generated_data(call[c].main_df, call[c].claims_df),
               !.pc = "return"]]
    /\ UNCHANGED <<pyRng, npRng, memo, vparams, verrors, stage, summary>>

\* return main_df, claims_df
Return(c) ==
    /\ call[c].pc = "return"
    /\ call' = [call EXCEPT ![c] =
           [@ EXCEPT !.pc = "done", !.outcome = "ok",
                     !.returned = <<call[c].main_df, call[c].claims_df>>]]
    /\ UNCHANGED <<pyRng, npRng, memo, vparams, verrors, stage, summary>>

\* the steps after validation
Step(c) ==
    \/ SeedSources(c)
    \/ Participants(c)
    \/ Plans(c)
    \/ UtilizationAndClaims(c)
    \/ Join(c)
    \/ Scan(c)
    \/ Return(c)

(***************************************************************************)
(* The caller and the rest of the process.                                 *)
(***************************************************************************)
\* the caller takes what the call returned or raised; it may keep a
\* returned result
Release(c) ==
    /\ call[c].pc = "done"
    /\ call' = [call EXCEPT ![c] = IdleCall]
    /\ \/ memo' = memo
       \/ /\ call[c].outcome = "ok"
          /\ memo' = [set |-> TRUE, params |-> call[c].params,
                      returned |-> call[c].returned]
    /\ UNCHANGED <<pyRng, npRng, vparams, verrors, stage, summary>>

\* any other code of the process draws from a global source or reseeds it
OtherDraw ==
    /\ \A c \in Calls : call[c].pc = "idle"
    /\ \/ pyRng' = PyStep(pyRng) /\ npRng' = npRng
       \/ npRng' = NpStep(npRng) /\ pyRng' = pyRng
    /\ UNCHANGED <<call, memo, vparams, verrors, stage, summary>>

(***************************************************************************)
(* Spec: invocations one after the other, other draws in between.          *)
(***************************************************************************)
Next ==
    \/ \E p \in ParamSpace : Validate(1, p)
    \/ Step(1)
    \/ Release(1)
    \/ OtherDraw

Spec == Init /\ [][Next]_vars

(***************************************************************************)
(* SpecConcurrent: two invocations whose steps interleave.                 *)
(***************************************************************************)
NextConcurrent ==
    \E c \in Calls :
        \/ \E p \in ConcurrentParamSpace : Validate(c, p)
        \/ Step(c)

SpecConcurrent == Init /\ [][NextConcurrent]_vars

(***************************************************************************)
(* SpecValidator: validate_generation_params applied to any params.        *)
(***************************************************************************)
InitValidator ==
    /\ InitCommon
    /\ vparams \in ValidatorParamSpace
    /\ verrors = <<"unset">>

RunValidator ==
    /\ verrors = <<"unset">>
    /\ verrors' = validate_generation_params(vparams)
    /\ UNCHANGED <<pyRng, npRng, call, memo, vparams, stage, summary>>

NextValidator == RunValidator

SpecValidator == InitValidator /\ [][NextValidator]_vars

(***************************************************************************)
(* SpecStages: generate_participants, generate_plans and                   *)
(* generate_utilization_and_claims called directly, from any state of the  *)
(* random sources.                                                         *)
(***************************************************************************)
InitStages ==
    /\ pyRng \in 0 .. (RngMod - 1)
    /\ npRng \in 0 .. (RngMod - 1)
    /\ call = [c \in Calls |-> IdleCall]
    /\ memo = NoMemo
    /\ stage = IdleStage
    /\ summary = NoSummary
    /\ vparams = << >>
    /\ verrors = << >>

CallGenerateParticipants(n) ==
    /\ stage.pc = "start"
    /\ LET r == generate_participants(pyRng, n)
       IN  /\ pyRng' = r.py
           /\ stage' = [stage EXCEPT !.pc = "participants", !.n = n,
                                     !.participants_df = r.df]
    /\ UNCHANGED <<npRng, call, memo, vparams, verrors, summary>>

CallGeneratePlans(p) ==
    /\ stage.pc = "participants"
    /\ LET r == generate_plans(pyRng, npRng, stage.participants_df, p)
       IN  /\ pyRng' = r.py
           /\ npRng' = r.np
           /\ stage' = [stage EXCEPT !.pc = "plans", !.params = p,
                                     !.np_in = npRng, !.plans_df = r.df,
                                     !.exc = r.exc]
    /\ UNCHANGED <<call, memo, vparams, verrors, summary>>

\* generate_utilization_and_claims on the plans generated, or (from the
\* start) on an empty plans table
CallGenerateUtilizationAndClaims(p) ==
    /\ \/ stage.pc = "plans" /\ stage.exc = "none" /\ p = stage.params
       \/ stage.pc = "start"
    /\ LET r == generate_utilization_and_claims(pyRng, npRng, stage.plans_df, p)
       IN  /\ pyRng' = r.py
           /\ npRng' = r.np
           /\ stage' = [stage EXCEPT !.pc = "util", !.params = p,
                                     !.util_df = r.util_df,
                                     !.claims_df = r.claims_df,
                                     !.claim_counts = r.claim_counts,
                                     !.exc = r.exc]
    /\ UNCHANGED <<call, memo, vparams, verrors, summary>>

\* get_data_quality_summary on the tables generated, joined as
\* generate_complete_dataset joins them, or (from the start) on two empty
\* tables
CallGetDataQualitySummary ==
    /\ \/ /\ stage.pc = "util"
          /\ stage.exc = "none"
          /\ LET m == merge_main(stage.plans_df, stage.participants_df,
                                 stage.util_df)
             IN  /\ m.exc = "none"
                 /\ summary' = [set |-> TRUE, main_df |-> m.df,
                                claims_df |-> stage.claims_df,
                                report |-> get_data_quality_summary(
                                               m.df, stage.claims_df)]
       \/ /\ stage.pc = "start"
          /\ summary' = [set |-> TRUE, main_df |-> NoTable,
                         claims_df |-> NoTable,
                         report |-> get_data_quality_summary(NoTable, NoTable)]
    /\ stage' = [stage EXCEPT !.pc = "summary"]
    /\ UNCHANGED <<pyRng, npRng, call, memo, vparams, verrors>>

NextStages ==
    \/ \E n \in StageCounts : CallGenerateParticipants(n)
    \/ \E p \in StageParamSpace : CallGeneratePlans(p)
    \/ \E p \in StageParamSpace : CallGenerateUtilizationAndClaims(p)
    \/ CallGetDataQualitySummary

SpecStages == InitStages /\ [][NextStages]_vars

(***************************************************************************)
(* Properties.                                                             *)
(***************************************************************************)
Finished(c) == call[c].pc = "done" /\ call[c].outcome = "ok"

RowIdx(df) == 1 .. Len(df.rows)

\* the body of generate_complete_dataset run from freshly seeded sources with
\* nothing else touching them: the tables a call with params p returns alone
Alone(p) ==
    LET r1 == generate_participants(PySeed(p.seed), p.n_participants)
        r2 == generate_plans(r1.py, NpSeed(p.seed), r1.df, p)
        r3 == generate_utilization_and_claims(r2.py, r2.np, r2.df, p)
        m == merge_main(r2.df, r1.df, r3.util_df)
    IN  <<m.df, r3.claims_df>>

\* C1: a call that returns tables for params an earlier call already returned
\* tables for returns the same main table and the same claims table, whatever
\* was drawn from the random sources, or run with other params, in between.
Determinism ==
    \A c \in Calls :
        (Finished(c) /\ memo.set /\ memo.params = call[c].params)
            => call[c].returned = memo.returned

DeterminismWitness ==
    \E c \in Calls :
        /\ Finished(c) /\ memo.set /\ memo.params = call[c].params
        /\ Len(call[c].returned[1].rows) >= 2
        /\ Len(call[c].returned[2].rows) >= 1

\* C2: of two calls whose steps interleave, each returns the tables it
\* returns when it runs alone.
ReentrantAsAlone ==
    \A c, d \in Calls :
        (/\ c # d
         /\ Finished(c)
         /\ call[d].pc # "idle"
         /\ call[d].params.seed # call[c].params.seed)
            => call[c].returned = Alone(call[c].params)

\* C3: validate_generation_params returns the empty list exactly when the
\* participant count is within the configured range, claims_min <= claims_max,
\* claims_min >= 1, 0 <= util_target <= 100, util_spread >= 1,
\* window_start < window_end and window_start <= pace_live <= window_end.
ValidatorRan == verrors # <<"unset">>

AllConditionsHold(p) ==
    /\ ParticipantsMin <= p.n_participants
    /\ p.n_participants <= ParticipantsMax
    /\ p.claims_min <= p.claims_max
    /\ p.claims_min >= 1
    /\ 0 <= p.util_target
    /\ p.util_target <= UtilTargetMax
    /\ p.util_spread >= 1
    /\ p.window_start < p.window_end
    /\ p.window_start <= p.pace_live
    /\ p.pace_live <= p.window_end

ValidatorEmptyIffValid ==
    ValidatorRan => ((verrors = << >>) <=> AllConditionsHold(vparams))

ValidatorEmptyIffValidWitness ==
    /\ ValidatorRan
    /\ verrors = << >>
    /\ vparams.n_participants = ParticipantsMax
    /\ vparams.claims_min = vparams.claims_max
    /\ vparams.pace_live = vparams.window_end

\* C4: the returned list holds exactly one message per violated condition and
\* nothing else: a violated condition is reported whatever else is violated.
AllMsgs ==
    {MsgParticipants, MsgClaimsOrder, MsgClaimsMin, MsgUtilTarget, MsgUtilSpread,
     MsgWindow, MsgPaceLive}

ConditionViolated(p, m) ==
    CASE m = MsgParticipants ->
            p.n_participants < ParticipantsMin \/ p.n_participants > ParticipantsMax
      [] m = MsgClaimsOrder -> p.claims_min > p.claims_max
      [] m = MsgClaimsMin -> p.claims_min < 1
      [] m = MsgUtilTarget -> p.util_target < 0 \/ p.util_target > UtilTargetMax
      [] m = MsgUtilSpread -> p.util_spread < 1
      [] m = MsgWindow -> ~(p.window_start < p.window_end)
      [] m = MsgPaceLive ->
            ~(p.window_start <= p.pace_live /\ p.pace_live <= p.window_end)

Occurrences(seq, m) == Cardinality({i \in 1 .. Len(seq) : seq[i] = m})

ValidatorReportsAll ==
    ValidatorRan =>
        /\ \A i \in 1 .. Len(verrors) : verrors[i] \in AllMsgs
        /\ \A m \in AllMsgs :
              Occurrences(verrors, m) = IF ConditionViolated(vparams, m) THEN 1 ELSE 0

ValidatorReportsAllWitness ==
    /\ ValidatorRan
    /\ Len(verrors) = Cardinality(AllMsgs)

\* C5: a call whose params fail validation ends at once with ValueError: no
\* stage has run, no table exists or is returned, and the random sources are
\* neither reseeded nor advanced, then or later for that call.
FailFast ==
    [][\A c \in Calls :
          /\ (call[c].pc = "idle" /\ call'[c].pc # "idle" /\ call'[c].errors # << >>)
                => /\ call'[c].pc = "done"
                   /\ call'[c].outcome = "ValueError"
                   /\ call'[c].returned = << >>
                   /\ call'[c].stages = << >>
                   /\ ~call'[c].seeded
                   /\ call'[c].participants_df = NoTable
                   /\ call'[c].plans_df = NoTable
                   /\ call'[c].util_df = NoTable
                   /\ call'[c].claims_df = NoTable
                   /\ call'[c].main_df = NoTable
                   /\ pyRng' = pyRng
                   /\ npRng' = npRng
          /\ (call[c].pc = "done" /\ call[c].errors # << >>)
                => /\ call'[c].pc \in {"done", "idle"}
                   /\ pyRng' = pyRng
                   /\ npRng' = npRng]_vars

FailFastWitness ==
    \E c \in Calls :
        /\ call[c].pc = "done"
        /\ Len(call[c].errors) >= 2
        /\ call[c].outcome = "ValueError"

\* C6: the main table a call returns has exactly one row per generated plan.
OneRowPerPlan ==
    \A c \in Calls :
        Finished(c) => Len(call[c].returned[1].rows) = Len(call[c].plans_df.rows)

\* C7: every row of the returned claims table carries a Plan_ID that occurs
\* in the Plan_ID column of the returned main table.
NoOrphanClaims ==
    \A c \in Calls :
        Finished(c) =>
            \A i \in RowIdx(call[c].returned[2]) :
                \E j \in RowIdx(call[c].returned[1]) :
                    call[c].returned[1].rows[j].Plan_ID
                        = call[c].returned[2].rows[i].Plan_ID

NoOrphanClaimsWitness ==
    \E c \in Calls :
        /\ Finished(c)
        /\ Len(call[c].returned[2].rows) >= 2
        /\ \E i, j \in RowIdx(call[c].returned[1]) :
              call[c].returned[1].rows[i].Plan_ID # call[c].returned[1].rows[j].Plan_ID

\* C8: every generated plan has Plan_Start_Date < Plan_End_Date <= window_end.
PlanDatesOrdered ==
    \A c \in Calls :
        \A i \in RowIdx(call[c].plans_df) :
            LET plan == call[c].plans_df.rows[i]
            IN  /\ plan.Plan_Start_Date < plan.Plan_End_Date
                /\ plan.Plan_End_Date <= call[c].params.window_end

\* C9: the budget of every generated plan, rounded to cents, lies within the
\* configured [min, max].
BudgetWithinBounds ==
    \A c \in Calls :
        \A i \in RowIdx(call[c].plans_df) :
            /\ BudgetMin <= call[c].plans_df.rows[i].Capital_AT_Budget_Total_AUD
            /\ call[c].plans_df.rows[i].Capital_AT_Budget_Total_AUD <= BudgetMax

BudgetWithinBoundsWitness ==
    \E c \in Calls :
        \E i, j \in RowIdx(call[c].plans_df) :
            /\ call[c].plans_df.rows[i].Capital_AT_Budget_Total_AUD = BudgetMin
            /\ call[c].plans_df.rows[j].Capital_AT_Budget_Total_AUD = BudgetMax

\* C10: every utilization row has 0 <= Utilization_Rate_Percent <= 100 and a
\* Total_Spent_AUD that is at most the budget of its plan.
UtilizationBounded ==
    \A c \in Calls :
        \A i \in RowIdx(call[c].util_df) :
            LET u == call[c].util_df.rows[i]
                plan == call[c].plans_df.rows[i]
            IN  /\ u.Plan_ID = plan.Plan_ID
                /\ 0 <= u.Utilization_Rate_Percent
                /\ u.Utilization_Rate_Percent <= 100 * 100
                /\ u.Total_Spent_AUD <= plan.Capital_AT_Budget_Total_AUD

UtilizationBoundedWitness ==
    \E c \in Calls :
        \E i \in RowIdx(call[c].util_df) :
            /\ call[c].util_df.rows[i].Utilization_Rate_Percent > 0
            /\ call[c].util_df.rows[i].Total_Spent_AUD
                  = call[c].plans_df.rows[i].Capital_AT_Budget_Total_AUD

\* C11: generate_participants(n), n >= 0, returns exactly n rows, each with a
\* non-null identifier and with State, MMM_Code and Primary_Disability taken
\* from their configured vocabularies.
ParticipantsContract ==
    stage.n >= 0 =>
        /\ Len(stage.participants_df.rows) = stage.n
        /\ \A i \in RowIdx(stage.participants_df) :
              LET row == stage.participants_df.rows[i]
              IN  /\ ~isnull(row.Hashed_Participant_ID)
                  /\ row.State \in 1 .. NumStates
                  /\ row.MMM_Code \in 1 .. NumMMM
                  /\ row.Primary_Disability \in 1 .. NumDisabilities

ParticipantsContractWitness ==
    /\ stage.n = ParticipantsMax + 1
    /\ \E i, j \in RowIdx(stage.participants_df) :
          /\ stage.participants_df.rows[i].State = 1
          /\ stage.participants_df.rows[j].State = NumStates

\* C12: generate_plans gives every participant row max(1, sampled count)
\* plans, one plan when the sampled count is 0: the plans table lists, in the
\* order of the participants, that many plans of each participant, so it has
\* at least one row per participant row and every owner is an input
\* participant.
RECURSIVE NpAfter(_, _)
NpAfter(s, k) == IF k <= 0 THEN s ELSE NpAfter(NpStep(s), k - 1)

SampledCount(i) == poisson(NpAfter(stage.np_in, i - 1), stage.params.avg_plans)

RECURSIVE Copies(_, _)
Copies(v, k) == IF k <= 0 THEN << >> ELSE <<v>> \o Copies(v, k - 1)

RECURSIVE ExpectedOwners(_)
ExpectedOwners(i) ==
    IF i > Len(stage.participants_df.rows) THEN << >>
    ELSE Copies(stage.participants_df.rows[i].Hashed_Participant_ID,
                IF SampledCount(i) = 0 THEN 1 ELSE SampledCount(i))
         \o ExpectedOwners(i + 1)

PlansGenerated == stage.pc = "plans" /\ stage.exc = "none"

PlansPerParticipant ==
    PlansGenerated =>
        /\ [j \in RowIdx(stage.plans_df) |->
               stage.plans_df.rows[j].Hashed_Participant_ID] = ExpectedOwners(1)
        /\ Len(stage.plans_df.rows) >= Len(stage.participants_df.rows)
        /\ \A j \in RowIdx(stage.plans_df) :
              \E i \in RowIdx(stage.participants_df) :
                  stage.plans_df.rows[j].Hashed_Participant_ID
                      = stage.participants_df.rows[i].Hashed_Participant_ID

PlansPerParticipantWitness ==
    /\ PlansGenerated
    /\ stage.params.avg_plans > 0
    /\ \E i, j \in RowIdx(stage.participants_df) :
          SampledCount(i) = 0 /\ SampledCount(j) >= 2
    /\ Len(stage.plans_df.rows) > Len(stage.participants_df.rows)

\* one iteration of the claims loop computes total_spent / n_claims once and
\* appends one row, so a plan's entry of claim_counts is both its number of
\* claim rows and the number of times its per-claim average was computed
UtilizationGenerated == stage.pc = "util" /\ stage.exc = "none"

\* C13: a plan whose Total_Spent_AUD is 0 yields zero claim rows and its
\* per-claim average is never computed, whatever claims_min and claims_max
\* are; the stage ends normally or with the ValueError of an empty randint
\* range, never with a division by zero.
ZeroSpentNoClaims ==
    stage.pc = "util" =>
        /\ stage.exc \in {"none", "ValueError"}
        /\ stage.exc = "none" =>
              /\ Len(stage.claim_counts) = Len(stage.util_df.rows)
              /\ \A i \in RowIdx(stage.util_df) :
                    stage.util_df.rows[i].Total_Spent_AUD = 0
                        => stage.claim_counts[i] = 0
              /\ (\A i \in RowIdx(stage.util_df) :
                    stage.util_df.rows[i].Total_Spent_AUD = 0)
                        => stage.claims_df.rows = << >>

ZeroSpentNoClaimsWitness ==
    /\ UtilizationGenerated
    /\ stage.params.claims_min >= 1
    /\ \E i, j \in RowIdx(stage.util_df) :
          /\ stage.util_df.rows[i].Total_Spent_AUD = 0
          /\ stage.claim_counts[i] = 0
          /\ stage.util_df.rows[j].Total_Spent_AUD > 0

\* C14: with 1 <= claims_min <= claims_max, a plan whose Total_Spent_AUD is
\* greater than 0 gets between claims_min and claims_max claim rows, and a
\* plan has zero claims only when its total spent is 0.
ClaimCountInRange ==
    (/\ UtilizationGenerated
     /\ 1 <= stage.params.claims_min
     /\ stage.params.claims_min <= stage.params.claims_max) =>
        \A i \in RowIdx(stage.util_df) :
            /\ stage.util_df.rows[i].Total_Spent_AUD > 0
                  => /\ stage.claim_counts[i] >= stage.params.claims_min
                     /\ stage.claim_counts[i] <= stage.params.claims_max
                     /\ stage.claim_counts[i] >= 1
            /\ stage.claim_counts[i] = 0
                  => stage.util_df.rows[i].Total_Spent_AUD = 0

ClaimCountInRangeWitness ==
    /\ UtilizationGenerated
    /\ stage.params.claims_min = 1
    /\ stage.params.claims_max = 2
    /\ \E i, j \in RowIdx(stage.util_df) :
          /\ stage.util_df.rows[i].Total_Spent_AUD > 0
          /\ stage.util_df.rows[j].Total_Spent_AUD > 0
          /\ stage.claim_counts[i] = 1
          /\ stage.claim_counts[j] = 2

AllStages == <<"participants", "plans", "util", "join", "scan">>

\* C15: data-quality warnings never abort generation: a run with valid params
\* whose quality scan yields one or more warnings still returns the main
\* table and the claims table.
WarningsDoNotAbort ==
    \A c \in Calls :
        (/\ call[c].pc = "done"
         /\ call[c].errors = << >>
         /\ call[c].warnings # << >>) =>
            /\ call[c].outcome = "ok"
            /\ call[c].returned = <<call[c].main_df, call[c].claims_df>>

WarningsDoNotAbortWitness ==
    \E c \in Calls :
        /\ Finished(c)
        /\ call[c].params.util_target = 0
        /\ call[c].warnings = <<WarnNoClaims>>
        /\ call[c].returned[1].rows # << >>
        /\ call[c].returned[2].rows = << >>

\* C16: fatal errors are atomic: a call in which a step after validation
\* raised ends with RuntimeError and returns nothing; what a call returns is
\* either both tables of a run that completed every step, or nothing.
AtomicFailure ==
    \A c \in Calls :
        /\ call[c].pc # "done" => call[c].returned = << >>
        /\ call[c].pc = "done" =>
              /\ (call[c].stages # << >> /\ call[c].stages # AllStages)
                    => call[c].outcome = "RuntimeError"
              /\ call[c].outcome # "ok" => call[c].returned = << >>
              /\ call[c].outcome = "ok" =>
                    /\ call[c].stages = AllStages
                    /\ call[c].main_df
                          = merge_main(call[c].plans_df, call[c].participants_df,
                                       call[c].util_df).df
                    /\ call[c].returned = <<call[c].main_df, call[c].claims_df>>

AtomicFailureWitness ==
    \E c \in Calls :
        /\ call[c].pc = "done"
        /\ call[c].outcome = "RuntimeError"
        /\ call[c].stages = <<"participants", "plans">>
        /\ call[c].participants_df.rows # << >>
        /\ call[c].returned = << >>

\* C17: empty input gives empty output without failing: generate_plans on the
\* result of generate_participants(0) returns an empty plans table, and
\* generate_utilization_and_claims on an empty plans table returns an empty
\* utilization table and an empty claims table; neither stage raises.
EmptyInEmptyOut ==
    /\ (stage.pc = "plans" /\ stage.n = 0) =>
          /\ stage.exc = "none"
          /\ stage.plans_df.rows = << >>
    /\ (stage.pc = "util" /\ stage.plans_df.rows = << >>) =>
          /\ stage.exc = "none"
          /\ stage.util_df.rows = << >>
          /\ stage.claims_df.rows = << >>

\* C18: get_data_quality_summary reports total_records = number of main rows,
\* total_participants = number of distinct participant ids, total_plans =
\* number of distinct plan ids, total_claims = number of claim rows and
\* total_amount = sum of the paid amounts; for an empty claims table it
\* reports total_claims = 0, total_amount = 0 and unique_items = 0.
RECURSIVE PaidUpTo(_, _)
PaidUpTo(df, i) ==
    IF i = 0 THEN 0 ELSE PaidUpTo(df, i - 1) + df.rows[i].Paid_UnitPrice_AUD

FirstOccurrences(df, col) ==
    {i \in RowIdx(df) : \A j \in 1 .. (i - 1) : df.rows[j][col] # df.rows[i][col]}

SummaryCounts ==
    summary.set =>
        LET main_df == summary.main_df
            claims_df == summary.claims_df
            main_data == summary.report.main_data
            claims_data == summary.report.claims_data
        IN  /\ main_data.total_records = Len(main_df.rows)
            /\ main_df.rows # << >> =>
                  /\ main_data.total_participants
                        = Cardinality(FirstOccurrences(main_df, "Hashed_Participant_ID"))
                  /\ main_data.total_plans
                        = Cardinality(FirstOccurrences(main_df, "Plan_ID"))
            /\ main_df.rows = << >> =>
                  /\ main_data.total_participants = 0
                  /\ main_data.total_plans = 0
            /\ claims_data.total_claims = Len(claims_df.rows)
            /\ claims_data.total_amount = PaidUpTo(claims_df, Len(claims_df.rows))
            /\ claims_df.rows = << >> =>
                  /\ claims_data.total_claims = 0
                  /\ claims_data.total_amount = 0
                  /\ claims_data.unique_items = 0

\* a participant with two plans (three rows or more, fewer participants than
\* rows) and claims with a positive sum
SummaryCountsWitness ==
    /\ summary.set
    /\ summary.report.main_data.total_records >= 3
    /\ summary.report.main_data.total_participants = 2
    /\ summary.report.main_data.total_plans
          > summary.report.main_data.total_participants
    /\ summary.report.claims_data.total_claims >= 3
    /\ summary.report.claims_data.total_amount > 0

\* a run without claims: the claims table has no rows
SummaryEmptyClaimsWitness ==
    /\ summary.set
    /\ summary.main_df.rows # << >>
    /\ summary.claims_df.rows = << >>
    /\ summary.report.claims_data.total_claims = 0
    /\ summary.report.claims_data.total_amount = 0

\* C19: all participants generated in one run have pairwise distinct
\* Hashed_Participant_ID values, and all plans generated in one run have
\* pairwise distinct Plan_ID values.
IdentifiersUnique ==
    \A c \in Calls :
        /\ \A i, j \in RowIdx(call[c].participants_df) :
              i # j => call[c].participants_df.rows[i].Hashed_Participant_ID
                          # call[c].participants_df.rows[j].Hashed_Participant_ID
        /\ \A i, j \in RowIdx(call[c].plans_df) :
              i # j => call[c].plans_df.rows[i].Plan_ID
                          # call[c].plans_df.rows[j].Plan_ID

MainColumns ==
    {"Plan_ID", "Hashed_Participant_ID", "Plan_Start_Date", "Plan_End_Date",
     "Capital_AT_Budget_Total_AUD", "Plan_Management_Mode", "Variation_Type",
     "State", "MMM_Code", "Age_Band", "Primary_Disability",
     "Utilization_Rate_Percent", "Total_Spent_AUD", "Avg_Processing_Days"}

ClaimsColumns == {"Plan_ID", "Support_Item_Type", "Paid_UnitPrice_AUD"}

\* C20: every successful run returns a main table with exactly the 14
\* columns of the contract and a claims table with exactly the columns plan
\* id, support-item code and paid amount, also when the run generated no
\* claims.
OutputColumns ==
    \A c \in Calls :
        Finished(c) =>
            /\ call[c].returned[1].cols = MainColumns
            /\ call[c].returned[2].cols = ClaimsColumns

\* where a call stands tells which stages it has finished
StagesDoneAt(pc) ==
    CASE pc = "plans" -> 1
      [] pc = "util" -> 2
      [] pc = "join" -> 3
      [] pc \in {"scan"} -> 4
      [] pc = "return" -> 5
      [] OTHER -> 0

StagesInOrder ==
    \A c \in Calls :
        LET cl == call[c]
        IN  /\ cl.stages = SubSeq(AllStages, 1, Len(cl.stages))
            /\ cl.pc # "done" => Len(cl.stages) = StagesDoneAt(cl.pc)
            /\ cl.pc \in {"idle", "seed"} => ~cl.seeded
            /\ cl.pc \in {"participants", "plans", "util", "join", "scan", "return"}
                  => cl.seeded
            /\ cl.seeded => cl.errors = << >>
            /\ cl.stages # << >> => cl.seeded
            /\ Finished(c) => cl.stages = AllStages /\ cl.seeded

StepsInOrder ==
    \A c \in Calls :
        /\ (call[c].pc # "idle" /\ call'[c].pc # "idle") =>
              /\ call'[c].params = call[c].params
              /\ \/ call'[c].stages = call[c].stages
                 \/ /\ Len(call[c].stages) < Len(AllStages)
                    /\ call'[c].stages
                          = Append(call[c].stages, AllStages[Len(call[c].stages) + 1])
              /\ call[c].seeded => call'[c].seeded
        /\ (call[c].pc = "seed") => call'[c].stages = << >>
        /\ (call'[c] # call[c] /\ ~call[c].seeded /\ call[c].pc # "seed") =>
              /\ pyRng' = pyRng
              /\ npRng' = npRng

\* C21: the stages of one run happen in a strict order: validation, seeding,
\* participants, plans, utilization and claims, join, quality scan, return;
\* a stage starts only when the previous one has finished, and no random
\* draw happens before the seeding.
StrictStageOrder == []StagesInOrder /\ [][StepsInOrder]_vars

StrictStageOrderWitness ==
    \E c \in Calls :
        /\ Finished(c)
        /\ call[c].stages = AllStages
        /\ call[c].seeded
        /\ pyRng # PySeed(call[c].params.seed)

\* the claims table lists the claims of the plans in the order of the plans:
\* the number of claim rows that precede those of plan i
RECURSIVE ClaimsBefore(_)
ClaimsBefore(i) ==
    IF i <= 1 THEN 0 ELSE ClaimsBefore(i - 1) + stage.claim_counts[i - 1]

\* C22: every generated claim has a non-negative Paid_UnitPrice_AUD that lies,
\* up to rounding to cents (half a cent either way), between 0.8 and 1.2
\* times total_spent / claim_count of its plan, claim_count being the number
\* of claims emitted for that plan.
ClaimAmountAroundAverage ==
    UtilizationGenerated =>
        /\ ClaimsBefore(Len(stage.claim_counts) + 1) = Len(stage.claims_df.rows)
        /\ \A i \in RowIdx(stage.util_df) :
              \A k \in 1 .. stage.claim_counts[i] :
                  LET claim == stage.claims_df.rows[ClaimsBefore(i) + k]
                      amount == claim.Paid_UnitPrice_AUD
                      total_spent == stage.util_df.rows[i].Total_Spent_AUD
                      claim_count == stage.claim_counts[i]
                  IN  /\ claim.Plan_ID = stage.util_df.rows[i].Plan_ID
                      /\ amount >= 0
                      /\ 20 * claim_count * amount
                            >= 16 * total_spent - 10 * claim_count
                      /\ 20 * claim_count * amount
                            <= 24 * total_spent + 10 * claim_count

ClaimAmountAroundAverageWitness ==
    /\ UtilizationGenerated
    /\ \E i \in RowIdx(stage.util_df) :
          /\ stage.claim_counts[i] = 2
          /\ stage.util_df.rows[i].Total_Spent_AUD = BudgetMax
          /\ stage.claims_df.rows[ClaimsBefore(i) + 1].Paid_UnitPrice_AUD
                # stage.claims_df.rows[ClaimsBefore(i) + 2].Paid_UnitPrice_AUD

\* C23: for every generated plan, Plan_End_Date is the earlier of
\* Plan_Start_Date + duration_days and window_end: the plan never lasts
\* longer than the configured duration, never ends after the window, and
\* lasts exactly the duration whenever start + duration does not pass
\* window_end.
PlanEndDateCapped ==
    \A i \in RowIdx(stage.plans_df) :
        LET plan == stage.plans_df.rows[i]
            window_end == stage.params.window_end
        IN  /\ plan.Plan_End_Date - plan.Plan_Start_Date <= DurationDays
            /\ plan.Plan_End_Date <= window_end
            /\ plan.Plan_Start_Date + DurationDays <= window_end
                  => plan.Plan_End_Date = plan.Plan_Start_Date + DurationDays
            /\ plan.Plan_Start_Date + DurationDays > window_end
                  => plan.Plan_End_Date = window_end

PlanEndDateCappedWitness ==
    \E i, j \in RowIdx(stage.plans_df) :
        LET full == stage.plans_df.rows[i]
            cut == stage.plans_df.rows[j]
        IN  /\ full.Plan_End_Date = full.Plan_Start_Date + DurationDays
            /\ full.Plan_End_Date < stage.params.window_end
            /\ cut.Plan_End_Date = stage.params.window_end
            /\ cut.Plan_End_Date < cut.Plan_Start_Date + DurationDays

Scanned(c) == Len(call[c].stages) = Len(AllStages)

\* C24: for every run with valid params the quality scan reports no warning
\* other than WarnNoClaims, and that one exactly when the claims table is
\* empty: never missing main columns, null identifiers, utilization rates
\* outside [0, 100] or negative claim amounts.
OnlyNoClaimsWarning ==
    \A c \in Calls :
        /\ ~Scanned(c) => call[c].warnings = << >>
        /\ Scanned(c) =>
              /\ call[c].errors = << >>
              /\ call[c].warnings
                    = validate_generated_data(call[c].main_df, call[c].claims_df)
              /\ \A k \in 1 .. Len(call[c].warnings) :
                    /\ call[c].warnings[k] = WarnNoClaims
                    /\ call[c].warnings[k] \notin
                          {WarnMissingCols, WarnNullPlanId, WarnNullParticipantId,
                           WarnInvalidUtil, WarnNegativeAmounts}
              /\ Len(call[c].warnings) <= 1
              /\ call[c].warnings # << >> <=> call[c].claims_df.rows = << >>

OnlyNoClaimsWarningWitness ==
    \E c \in Calls :
        /\ Finished(c)
        /\ Scanned(c)
        /\ call[c].warnings = << >>
        /\ call[c].claims_df.rows # << >>
        /\ \E i \in RowIdx(call[c].main_df) :
              call[c].main_df.rows[i].Utilization_Rate_Percent > 0

\* C25: get_data_quality_summary never divides by zero: for every main
\* table, including one with zero rows or zero cells, completeness_pct is a
\* number within [0, 100].
CompletenessIsPercent ==
    summary.set =>
        /\ ~summary.report.main_data.completeness_pct.nan
        /\ summary.report.main_data.completeness_pct.val >= 0
        /\ summary.report.main_data.completeness_pct.val <= 100 * 10

====
